---- MODULE Spec2Model ----
(***************************************************************************)
(* State-machine model of the OAuth 2.1 authorization server and the      *)
(* protected-resource gateway of mcp-trading: authorization codes, the    *)
(* /token grants, /revoke, the session revoke operations and the /mcp     *)
(* authentication middleware with its request-scoped user context.        *)
(*                                                                         *)
(* A handler is a sequence of database statements.  Every SELECT and      *)
(* every flush+COMMIT is one atomic step (READ COMMITTED).  The checks on *)
(* a loaded row run in the step of its SELECT; tokens are minted in the   *)
(* step of the flush that writes them.  Requests run in the slots Reqs    *)
(* and interleave at statement boundaries.                                 *)
(***************************************************************************)
EXTENDS Integers, Sequences, FiniteSets, TLC

(***************************************************************************)
(* Bounds of the model.                                                    *)
(***************************************************************************)
TicksPerSecond == 2     \* clock resolution: ticks per wall-clock second
MaxAdvance == 2         \* clock advances in one behaviour
MaxReqs == 2            \* request slots (concurrent requests)
MaxCodes == 1           \* authorization codes issued in one behaviour
MaxNonce == 6           \* values drawn from the random generator / uuid4

(***************************************************************************)
(* Program constants.                                                      *)
(***************************************************************************)
ACCESS_TOKEN_EXPIRE_MINUTES == 15
REFRESH_TOKEN_EXPIRE_DAYS == 30
CODE_EXPIRE_MINUTES == 10

SERVER_URL == "http://localhost:8000"
MCP_ENDPOINT == "http://localhost:8000/mcp/"
ALGORITHM == "HS256"

Minutes(m) == m * 60 * TicksPerSecond
Days(d) == d * 24 * 60 * 60 * TicksPerSecond

\* jose writes datetimes into the JWT as whole seconds (timegm(utctimetuple()))
Seconds(t) == t \div TicksPerSecond

(***************************************************************************)
(* Input alphabets.                                                        *)
(***************************************************************************)
Reqs == 1..MaxReqs
ClientIds == {"mcp-A", "mcp-B"}
RedirectUris == {"http://localhost:3000/cb", "https://evil.example/cb"}
Resources == {MCP_ENDPOINT, "https://other/mcp/"}
Verifiers == {"verifier-1", "verifier-2"}

(***************************************************************************)
(* Values.                                                                 *)
(***************************************************************************)
NoToken == [typ |-> "none"]
NoRow == [none |-> TRUE]
NoUser == 0

\* secrets.token_urlsafe(32): a value never drawn before
Opaque(n) == [typ |-> "opaque", n |-> n]

\* hashlib.sha256(x).hexdigest(): injective on the values of the model
Sha256Hex(x) == [sha256 |-> x]

\* base64.urlsafe_b64encode(sha256(verifier)).rstrip('=')
S256Challenge(verifier) == [b64url_nopad |-> Sha256Hex(verifier)]

\* bcrypt.hashpw / bcrypt.checkpw
hash_password(pw) == [bcrypt |-> pw]
verify_password(pw, h) == h = hash_password(pw)

VARIABLES
    now,        \* wall clock, in ticks
    advances,   \* number of clock advances so far
    fresh,      \* next value of the random generator
    clients,    \* oauth_clients: set of rows
    users,      \* users: set of rows
    codes,      \* oauth_codes: set of rows
    tokens,     \* oauth_tokens: set of rows
    reqs,       \* request slot -> the request in it (position, inputs, locals, response)
    ctx,        \* request slot -> the contextvars Context of the request's task
    handed,     \* token pairs the server has returned to clients, each with the
                \* code or refresh token it was granted for
    schwab_oauth_states,  \* schwab_oauth_states: set of rows
    user_credentials,     \* user_credentials: set of rows
    janitor,    \* position of the cleanup_loop task
    stop_event  \* the asyncio.Event the lifespan sets at shutdown

vars == <<now, advances, fresh, clients, users, codes, tokens, reqs, ctx, handed,
          schwab_oauth_states, user_credentials, janitor, stop_event>>

(***************************************************************************)
(* create_access_token / verify_access_token                               *)
(***************************************************************************)
\* jwt.encode over data + exp, iat, iss; HS256 is deterministic, so two calls
\* with the same claims in the same second return the same string.
create_access_token(sub, aud, client_id, scope, expires_delta, t) ==
    [typ |-> "jwt", sub |-> sub, aud |-> aud, client_id |-> client_id,
     scope |-> scope, exp |-> Seconds(t + expires_delta), iat |-> Seconds(t),
     iss |-> SERVER_URL, alg |-> ALGORITHM]

\* jwt.decode(token, SECRET_KEY, algorithms, audience, issuer) and the two
\* additional checks: "ok" or the status of the HTTPException raised.
\* A JWTError is turned into 401, the aud re-check raises 403.
verify_access_token_bad(token, expected_audience, t) ==
    IF token.typ # "jwt" \/ token.alg # ALGORITHM THEN 401
    ELSE IF token.iss # SERVER_URL THEN 401
    ELSE IF token.exp < Seconds(t) THEN 401
    ELSE IF token.sub = NoUser THEN 401
    ELSE 0

verify_access_token(token, expected_audience, t) ==
    IF token.typ # "jwt" \/ token.alg # ALGORITHM THEN 401
    ELSE IF token.aud # expected_audience THEN 401
    ELSE IF token.iss # SERVER_URL THEN 401
    ELSE IF token.exp < Seconds(t) THEN 401
    ELSE IF token.sub = NoUser THEN 401
    ELSE IF token.aud # expected_audience THEN 403
    ELSE 0

(***************************************************************************)
(* Request slots.                                                          *)
(***************************************************************************)
Idle == [pc |-> "idle", kind |-> "none", code |-> NoToken, redirect_uri |-> "",
         code_verifier |-> "", client_id |-> "", resource |-> "",
         token |-> NoToken, hint |-> "", path |-> "", row |-> NoRow,
         rows |-> {}, count |-> 0,
         status |-> 0, detail |-> "", access |-> NoToken,
         refresh |-> NoToken, seen_user |-> NoUser, seen_token |-> NoToken,
         called |-> FALSE, raised |-> FALSE, db |-> "none",
         hctx |-> [user_id |-> NoUser, authenticated |-> FALSE, token |-> NoToken]]

Free(r) == reqs[r].pc \in {"idle", "done"}

\* the workers that serve the token endpoints when a specification keeps the
\* last worker for the protected resource
TokenSlots == {r \in Reqs : r < MaxReqs}

\* a request that has been answered: its kind and the response; the inputs and
\* the handler's locals are gone
Ended(rq, status, detail) ==
    [Idle EXCEPT !.pc = "done", !.kind = rq.kind, !.status = status, !.detail = detail]

Respond(r, status, detail) == [reqs EXCEPT ![r] = Ended(reqs[r], status, detail)]

DefaultCtx == [user_id |-> NoUser, authenticated |-> FALSE, token |-> NoToken]

Init ==
    /\ now = 0
    /\ advances = 0
    /\ fresh = 1
    /\ clients = {}
    /\ users = {}
    /\ codes = {}
    /\ tokens = {}
    /\ reqs = [r \in Reqs |-> Idle]
    /\ ctx = [r \in Reqs |-> DefaultCtx]
    /\ handed = {}
    /\ schwab_oauth_states = {}
    /\ user_credentials = {}
    /\ janitor = "sleep"
    /\ stop_event = FALSE

(***************************************************************************)
(* The clock.                                                              *)
(***************************************************************************)
Advance(d) ==
    /\ advances < MaxAdvance
    /\ now' = now + d
    /\ advances' = advances + 1
    /\ UNCHANGED <<fresh, clients, users, codes, tokens, reqs, ctx, handed,
                   schwab_oauth_states, user_credentials, janitor, stop_event>>

(***************************************************************************)
(* POST /register                                                          *)
(***************************************************************************)
register_client(cid, uris) ==
    /\ cid \notin {c.client_id : c \in clients}
    /\ uris # {}
    /\ clients' = clients \cup {[client_id |-> cid, redirect_uris |-> uris,
                                 is_confidential |-> FALSE]}
    /\ UNCHANGED <<now, advances, fresh, users, codes, tokens, reqs, ctx, handed,
                   schwab_oauth_states, user_credentials, janitor, stop_event>>

(***************************************************************************)
(* POST /authorize/login                                                   *)
(***************************************************************************)
\* the OAuthCode row stored by the handler
NewCode(n, user_id, client_id, redirect_uri, challenge, method, resource, scope, t) ==
    [code |-> Opaque(n), user_id |-> user_id, client_id |-> client_id,
     redirect_uri |-> redirect_uri, code_challenge |-> challenge,
     code_challenge_method |-> method, resource_parameter |-> resource,
     scope |-> scope, expires_at |-> t + Minutes(CODE_EXPIRE_MINUTES),
     used |-> FALSE, created_at |-> t]

authorize_login(email, password, client_id, redirect_uri, challenge, method, resource, scope) ==
    /\ Cardinality({c \in codes : \E u \in users : u.email = email /\ c.user_id = u.user_id})
           < MaxCodes
    /\ fresh + 1 <= MaxNonce
    /\ LET known == {u \in users : u.email = email}
           client == {c \in clients : c.client_id = client_id}
       IN  IF known = {}
           THEN \* a new user is created and committed before the client check
                /\ users' = users \cup {[user_id |-> fresh, email |-> email,
                                         password_hash |-> hash_password(password)]}
                /\ IF client = {} \/ \A c \in client : redirect_uri \notin c.redirect_uris
                   THEN /\ fresh' = fresh + 1
                        /\ codes' = codes
                   ELSE /\ fresh' = fresh + 2
                        /\ codes' = codes \cup {NewCode(fresh + 1, fresh, client_id,
                                        redirect_uri, challenge, method, resource, scope, now)}
           ELSE LET user == CHOOSE u \in known : TRUE
                IN  /\ verify_password(password, user.password_hash)
                    /\ client # {}
                    /\ \E c \in client : redirect_uri \in c.redirect_uris
                    /\ users' = users
                    /\ fresh' = fresh + 1
                    /\ codes' = codes \cup {NewCode(fresh, user.user_id, client_id,
                                        redirect_uri, challenge, method, resource, scope, now)}
    /\ UNCHANGED <<now, advances, clients, tokens, reqs, ctx, handed,
                   schwab_oauth_states, user_credentials, janitor, stop_event>>

(***************************************************************************)
(* POST /token, grant_type=authorization_code                              *)
(***************************************************************************)
\* db.query(OAuthCode).filter(code == code, client_id == client_id, used == False)
QueryCode_anyUsed(code, client_id) ==
    {c \in codes : c.code = code /\ c.client_id = client_id}

QueryCode(code, client_id) ==
    {c \in codes : c.code = code /\ c.client_id = client_id /\ c.used = FALSE}

\* the checks on the loaded code, in the handler's order: the detail of the
\* HTTPException(400) raised, or "" when all pass
CodeGrantError_lateExpiry(row, redirect_uri, code_verifier, resource, t) ==
    IF row.expires_at + 1 < t THEN "Authorization code expired"
    ELSE IF row.redirect_uri # redirect_uri THEN "redirect_uri mismatch"
    ELSE IF S256Challenge(code_verifier) # row.code_challenge THEN "Invalid code_verifier"
    ELSE IF resource # row.resource_parameter THEN "resource parameter mismatch"
    ELSE ""

CodeGrantError_noPkce(row, redirect_uri, code_verifier, resource, t) ==
    IF row.expires_at < t THEN "Authorization code expired"
    ELSE IF row.redirect_uri # redirect_uri THEN "redirect_uri mismatch"
    ELSE IF resource # row.resource_parameter THEN "resource parameter mismatch"
    ELSE ""

CodeGrantError(row, redirect_uri, code_verifier, resource, t) ==
    IF row.expires_at < t THEN "Authorization code expired"
    ELSE IF row.redirect_uri # redirect_uri THEN "redirect_uri mismatch"
    ELSE IF S256Challenge(code_verifier) # row.code_challenge THEN "Invalid code_verifier"
    ELSE IF resource # row.resource_parameter THEN "resource parameter mismatch"
    ELSE ""

\* the SELECT of the code and the checks on it: the row and the detail of the
\* 400 raised ("" when the handler goes on to mark the code used)
CodeGrantArrival(code, redirect_uri, code_verifier, client_id, resource) ==
    LET q == QueryCode(code, client_id)
    IN  IF q = {} THEN [row |-> NoRow, err |-> "Invalid authorization code"]
        ELSE LET row == CHOOSE c \in q : TRUE
             IN  [row |-> row,
                  err |-> CodeGrantError(row, redirect_uri, code_verifier, resource, now)]

\* oauth_code.used = True; db.commit(): the unit of work flushes
\* UPDATE oauth_codes SET used = true WHERE code = <primary key>, and raises
\* StaleDataError when no row matches
CodeGrantMarkUsed(r) ==
    /\ reqs[r].pc = "cg_mark"
    /\ IF \E c \in codes : c.code = reqs[r].row.code
       THEN /\ codes' = {IF c.code = reqs[r].row.code THEN [c EXCEPT !.used = TRUE] ELSE c
                            : c \in codes}
            /\ reqs' = [reqs EXCEPT ![r].pc = "cg_insert"]
       ELSE /\ codes' = codes
            /\ reqs' = Respond(r, 500, "StaleDataError")
    /\ UNCHANGED <<now, advances, fresh, clients, users, tokens, ctx, handed,
                   schwab_oauth_states, user_credentials, janitor, stop_event>>

\* no time: the row has not been revoked
NoTime == -1

\* the OAuthToken row built by the handler
NewToken(access, refresh, user_id, client_id, resource, scope, t) ==
    [token_hash |-> Sha256Hex(access), user_id |-> user_id, client_id |-> client_id,
     resource_parameter |-> resource, scope |-> scope,
     expires_at |-> t + Minutes(ACCESS_TOKEN_EXPIRE_MINUTES),
     refresh_token_hash |-> Sha256Hex(refresh),
     refresh_expires_at |-> t + Days(REFRESH_TOKEN_EXPIRE_DAYS),
     revoked |-> FALSE, created_at |-> t,
     revoked_at |-> NoTime,   \* not a column: the time of the commit that set
                              \* revoked, kept in the model for the audit claims
     rid |-> refresh.n]   \* identity of the row in the model: a refresh rewrites
                          \* the primary key, the row stays the same row

\* mint the pair, db.add(oauth_token); db.commit(): the INSERT violates the
\* primary key when a row with the same token_hash exists (IntegrityError)
CodeGrantInsert(r) ==
    /\ reqs[r].pc = "cg_insert"
    /\ fresh <= MaxNonce
    /\ LET row == reqs[r].row
           access == create_access_token(row.user_id, reqs[r].resource, reqs[r].client_id,
                         row.scope, Minutes(ACCESS_TOKEN_EXPIRE_MINUTES), now)
           refresh == Opaque(fresh)
           new == NewToken(access, refresh, row.user_id, reqs[r].client_id,
                           reqs[r].resource, row.scope, now)
       IN  /\ fresh' = fresh + 1
           /\ IF \E t \in tokens : t.token_hash = new.token_hash
              THEN /\ tokens' = tokens
                   /\ handed' = handed
                   /\ reqs' = Respond(r, 500, "IntegrityError")
              ELSE /\ tokens' = tokens \cup {new}
                   /\ handed' = handed \cup {[access |-> access, refresh |-> refresh,
                                               via |-> reqs[r].code]}
                   /\ reqs' = [reqs EXCEPT ![r] = [Ended(reqs[r], 200, "") EXCEPT
                                           !.access = access, !.refresh = refresh]]
    /\ UNCHANGED <<now, advances, clients, users, codes, ctx,
                   schwab_oauth_states, user_credentials, janitor, stop_event>>

(***************************************************************************)
(* POST /token, grant_type=refresh_token                                   *)
(***************************************************************************)
\* db.query(OAuthToken).filter(refresh_token_hash == h, client_id == c, revoked == False)
QueryRefresh_anyRevoked(refresh_token, client_id) ==
    {t \in tokens : /\ t.refresh_token_hash = Sha256Hex(refresh_token)
                    /\ t.client_id = client_id}

QueryRefresh(refresh_token, client_id) ==
    {t \in tokens : /\ t.refresh_token_hash = Sha256Hex(refresh_token)
                    /\ t.client_id = client_id
                    /\ t.revoked = FALSE}

RefreshGrantError(row, resource, t) ==
    IF row.refresh_expires_at < t THEN "Refresh token expired"
    ELSE IF resource # row.resource_parameter THEN "resource parameter mismatch"
    ELSE ""

\* the SELECT of the row and the checks on it
RefreshArrival(refresh_token, client_id, resource) ==
    LET q == QueryRefresh(refresh_token, client_id)
    IN  IF q = {} THEN [row |-> NoRow, err |-> "Invalid refresh token"]
        ELSE LET row == CHOOSE t \in q : TRUE
             IN  [row |-> row, err |-> RefreshGrantError(row, resource, now)]

\* POST /token: request r arrives with its form fields (an absent code or
\* refresh_token is NoToken, another absent field is ""); the handler of the
\* grant_type runs its SELECT and its checks
token_exchange(r, grant_type, code, redirect_uri, code_verifier, refresh_token, client_id, resource) ==
    /\ Free(r)
    /\ LET form == [Idle EXCEPT !.code = code, !.redirect_uri = redirect_uri,
                                !.code_verifier = code_verifier,
                                !.token = refresh_token,
                                !.client_id = client_id, !.resource = resource]
       IN  IF grant_type = "authorization_code"
           THEN LET a == CodeGrantArrival(code, redirect_uri, code_verifier, client_id,
                                          resource)
                    rq == [form EXCEPT !.kind = "code_grant"]
                IN  IF a.err # ""
                    THEN reqs' = [reqs EXCEPT ![r] = Ended(rq, 400, a.err)]
                    ELSE reqs' = [reqs EXCEPT ![r] =
                                     [rq EXCEPT !.pc = "cg_mark", !.row = a.row]]
           ELSE IF grant_type = "refresh_token"
           THEN LET a == RefreshArrival(refresh_token, client_id, resource)
                    rq == [form EXCEPT !.kind = "refresh_grant"]
                IN  IF a.err # ""
                    THEN reqs' = [reqs EXCEPT ![r] = Ended(rq, 400, a.err)]
                    ELSE reqs' = [reqs EXCEPT ![r] =
                                     [rq EXCEPT !.pc = "rg_commit", !.row = a.row]]
           ELSE reqs' = [reqs EXCEPT ![r] =
                            Ended([form EXCEPT !.kind = "token"], 400,
                                  "Unsupported grant_type")]
    /\ UNCHANGED <<now, advances, fresh, clients, users, codes, tokens, ctx, handed,
                   schwab_oauth_states, user_credentials, janitor, stop_event>>

\* an authorization_code request without refresh_token
CodeGrantRead(r, code, redirect_uri, code_verifier, client_id, resource) ==
    token_exchange(r, "authorization_code", code, redirect_uri, code_verifier, NoToken,
                   client_id, resource)

\* a refresh_token request without code, redirect_uri and code_verifier
RefreshRead(r, refresh_token, client_id, resource) ==
    token_exchange(r, "refresh_token", NoToken, "", "", refresh_token, client_id, resource)

\* what the flush of the mutated OAuthToken object writes: the unit of work
\* emits UPDATE oauth_tokens SET <changed columns> WHERE token_hash = <the
\* primary key as loaded>; the columns the handler did not assign keep the
\* value the database holds
RotatedRow_staleObject(cur, loaded, access, refresh, t) ==
    [loaded EXCEPT !.token_hash = Sha256Hex(access),
                   !.refresh_token_hash = Sha256Hex(refresh),
                   !.expires_at = t + Minutes(ACCESS_TOKEN_EXPIRE_MINUTES),
                   !.refresh_expires_at = t + Days(REFRESH_TOKEN_EXPIRE_DAYS)]

RotatedRow_newSession(cur, loaded, access, refresh, t) ==
    [cur EXCEPT !.token_hash = Sha256Hex(access),
                !.refresh_token_hash = Sha256Hex(refresh),
                !.expires_at = t + Minutes(ACCESS_TOKEN_EXPIRE_MINUTES),
                !.refresh_expires_at = t + Days(REFRESH_TOKEN_EXPIRE_DAYS),
                !.created_at = t]

RotatedRow(cur, loaded, access, refresh, t) ==
    [cur EXCEPT !.token_hash = Sha256Hex(access),
                !.refresh_token_hash = Sha256Hex(refresh),
                !.expires_at = t + Minutes(ACCESS_TOKEN_EXPIRE_MINUTES),
                !.refresh_expires_at = t + Days(REFRESH_TOKEN_EXPIRE_DAYS)]

\* mint the new pair, assign the four columns, db.commit().  StaleDataError
\* when no row has the loaded primary key any more; IntegrityError when the
\* new primary key is that of another row.
RefreshCommit(r) ==
    /\ reqs[r].pc = "rg_commit"
    /\ fresh <= MaxNonce
    /\ LET loaded == reqs[r].row
           access == create_access_token(loaded.user_id, reqs[r].resource, reqs[r].client_id,
                         loaded.scope, Minutes(ACCESS_TOKEN_EXPIRE_MINUTES), now)
           refresh == Opaque(fresh)
           hit == {t \in tokens : t.token_hash = loaded.token_hash}
       IN  /\ fresh' = fresh + 1
           /\ IF hit = {}
              THEN /\ tokens' = tokens
                   /\ handed' = handed
                   /\ reqs' = Respond(r, 500, "StaleDataError")
              ELSE LET cur == CHOOSE t \in hit : TRUE
                       new == RotatedRow(cur, loaded, access, refresh, now)
                   IN  IF \E t \in tokens \ {cur} : t.token_hash = new.token_hash
                       THEN /\ tokens' = tokens
                            /\ handed' = handed
                            /\ reqs' = Respond(r, 500, "IntegrityError")
                       ELSE /\ tokens' = (tokens \ {cur}) \cup {new}
                            /\ handed' = handed \cup {[access |-> access, refresh |-> refresh,
                                                        via |-> reqs[r].token]}
                            /\ reqs' = [reqs EXCEPT ![r] = [Ended(reqs[r], 200, "") EXCEPT
                                                    !.access = access, !.refresh = refresh,
                                                    !.row = cur]]  \* the row the UPDATE matched
    /\ UNCHANGED <<now, advances, clients, users, codes, ctx,
                   schwab_oauth_states, user_credentials, janitor, stop_event>>

(***************************************************************************)
(* POST /revoke                                                            *)
(***************************************************************************)
\* the row the handler settles on: by token_hash unless the hint is
\* "refresh_token", else by refresh_token_hash unless the hint is
\* "access_token"; NoRow when neither lookup finds one
RevokeLookup(token, hint) ==
    LET byAccess == IF hint # "refresh_token"
                    THEN {t \in tokens : t.token_hash = Sha256Hex(token)} ELSE {}
        byRefresh == IF hint # "access_token"
                     THEN {t \in tokens : t.refresh_token_hash = Sha256Hex(token)} ELSE {}
    IN  IF byAccess # {} THEN CHOOSE t \in byAccess : TRUE
        ELSE IF byRefresh # {} THEN CHOOSE t \in byRefresh : TRUE
        ELSE NoRow

\* if client_id and oauth_token.client_id != client_id
ClientMismatch_never(row, client_id) == FALSE

ClientMismatch(row, client_id) == client_id # "" /\ row.client_id # client_id

\* token_type_hint is optional ("" when absent)
TokenTypeHints == {"", "access_token", "refresh_token"}

\* client_id is optional ("" when absent)
RevokeRead(r, token, hint, client_id) ==
    /\ Free(r)
    /\ LET row == RevokeLookup(token, hint)
           rq == [Idle EXCEPT !.kind = "revoke", !.token = token, !.hint = hint,
                              !.client_id = client_id]
       IN  IF row = NoRow
           THEN reqs' = [reqs EXCEPT ![r] = [Ended(rq, 200, "not found") EXCEPT
                                                 !.token = token, !.hint = hint]]
           ELSE IF ClientMismatch(row, client_id)
           THEN reqs' = [reqs EXCEPT ![r] = Ended(rq, 200, "client mismatch")]
           ELSE reqs' = [reqs EXCEPT ![r] = [rq EXCEPT !.pc = "rv_commit", !.row = row]]
    /\ UNCHANGED <<now, advances, fresh, clients, users, codes, tokens, ctx, handed,
                   schwab_oauth_states, user_credentials, janitor, stop_event>>

\* the flush of objects whose revoked was assigned True: no statement for an
\* object that was loaded revoked (nothing changed), else UPDATE oauth_tokens
\* SET revoked = true WHERE token_hash = <primary key as loaded>.  A statement
\* that matches no row raises StaleDataError and the transaction is rolled back.
FlushStale(loaded) ==
    \E l \in loaded : ~l.revoked /\ ~\E t \in tokens : t.token_hash = l.token_hash

FlushRevoked(loaded) ==
    {IF \E l \in loaded : ~l.revoked /\ l.token_hash = t.token_hash
     THEN [t EXCEPT !.revoked = TRUE,
                    !.revoked_at = IF t.revoked THEN t.revoked_at ELSE now]
     ELSE t : t \in tokens}

RevokeCommit(r) ==
    /\ reqs[r].pc = "rv_commit"
    /\ IF FlushStale({reqs[r].row})
       THEN /\ tokens' = tokens
            /\ reqs' = Respond(r, 500, "StaleDataError")
       ELSE /\ tokens' = FlushRevoked({reqs[r].row})
            /\ reqs' = Respond(r, 200, "revoked")
    /\ UNCHANGED <<now, advances, fresh, clients, users, codes, ctx, handed,
                   schwab_oauth_states, user_credentials, janitor, stop_event>>

(***************************************************************************)
(* POST /setup/revoke-current, POST /setup/revoke-all                      *)
(***************************************************************************)
\* db.query(OAuthToken).filter(token_hash == h, revoked == False)
QueryActiveToken(token) ==
    {t \in tokens : t.token_hash = Sha256Hex(token) /\ t.revoked = FALSE}

\* db.query(OAuthToken).filter(user_id == u, revoked == False)
QueryActiveOfUser_anyUser(user_id) ==
    {t \in tokens : t.revoked = FALSE}

QueryActiveOfUser(user_id) ==
    {t \in tokens : t.user_id = user_id /\ t.revoked = FALSE}

\* the HTTPException of verify_access_token is caught by the handler's
\* except Exception and answered 500
revoke_current_session(r, token) ==
    /\ Free(r)
    /\ LET rq == [Idle EXCEPT !.kind = "revoke_current", !.token = token]
           q == QueryActiveToken(token)
       IN  IF verify_access_token(token, MCP_ENDPOINT, now) # 0
           THEN reqs' = [reqs EXCEPT ![r] = Ended(rq, 500, "verify")]
           ELSE IF q = {}
           THEN reqs' = [reqs EXCEPT ![r] = Ended(rq, 404, "Current token not found")]
           ELSE reqs' = [reqs EXCEPT ![r] = [rq EXCEPT !.pc = "rc_commit", !.rows = q]]
    /\ UNCHANGED <<now, advances, fresh, clients, users, codes, tokens, ctx, handed,
                   schwab_oauth_states, user_credentials, janitor, stop_event>>

revoke_all_sessions(r, token) ==
    /\ Free(r)
    /\ LET rq == [Idle EXCEPT !.kind = "revoke_all", !.token = token]
           q == QueryActiveOfUser(token.sub)
       IN  IF verify_access_token(token, MCP_ENDPOINT, now) # 0
           THEN reqs' = [reqs EXCEPT ![r] = Ended(rq, 500, "verify")]
           ELSE IF q = {}
           THEN reqs' = [reqs EXCEPT ![r] = Ended(rq, 200, "No active sessions found")]
           ELSE reqs' = [reqs EXCEPT ![r] = [rq EXCEPT !.pc = "rc_commit", !.rows = q]]
    /\ UNCHANGED <<now, advances, fresh, clients, users, codes, tokens, ctx, handed,
                   schwab_oauth_states, user_credentials, janitor, stop_event>>

\* token_obj.revoked = True for every loaded row; db.commit()
SessionRevokeCommit(r) ==
    /\ reqs[r].pc = "rc_commit"
    /\ IF FlushStale(reqs[r].rows)
       THEN /\ tokens' = tokens
            /\ reqs' = Respond(r, 500, "StaleDataError")
       ELSE /\ tokens' = FlushRevoked(reqs[r].rows)
            /\ reqs' = [reqs EXCEPT ![r] = [Ended(reqs[r], 200, "revoked") EXCEPT
                                    !.count = Cardinality(reqs[r].rows)]]
    /\ UNCHANGED <<now, advances, fresh, clients, users, codes, ctx, handed,
                   schwab_oauth_states, user_credentials, janitor, stop_event>>

(***************************************************************************)
(* request_context: the three ContextVars as one binding per context.      *)
(***************************************************************************)
\* the context the task serving request r runs in: the server starts a task
\* per request, and a task has a context of its own
TaskContext_shared(r) == 1

TaskContext(r) == r

set_user_id(c, user_id, token) ==
    [user_id |-> user_id, authenticated |-> TRUE,
     token |-> IF token # NoToken THEN token ELSE c.token]

\* get_user_id raises ValueError when this holds
GetUserIdRaises(c) == ~c.authenticated \/ c.user_id = NoUser

get_user_id(c) == c.user_id

get_current_token(c) == c.token

clear_user_id_keep(c) == c

clear_user_id(c) == [user_id |-> NoUser, authenticated |-> FALSE, token |-> NoToken]

(***************************************************************************)
(* MCPAuthMiddleware.dispatch                                              *)
(***************************************************************************)
\* paths as sequences of segments
McpPath == <<"/mcp", "/">>
HealthPath == <<"/mcp", "/health">>
OtherPath == <<"/health">>
Paths == {McpPath, HealthPath, OtherPath}

\* request.url.path.startswith("/mcp")
StartsWithMcp(path) == Len(path) >= 1 /\ path[1] = "/mcp"

\* the paths on which dispatch demands a bearer token
Protected(path) == StartsWithMcp(path) /\ path # HealthPath

\* db.query(User).filter(User.user_id == user_id).first()
QueryUser(user_id) == {u \in users : u.user_id = user_id}

\* dispatch from its entry to the first await (call_next) or to its return:
\* path and header checks, verify_access_token, the User lookup, set_user_id.
\* token = NoToken stands for a request without a Bearer header.  A request is
\* served by a new task, whose context holds no binding.
MwArrive(r, path, token) ==
    /\ Free(r)
    /\ LET rq == [Idle EXCEPT !.kind = "mcp", !.path = path, !.token = token]
           k == TaskContext(r)
           new == [ctx EXCEPT ![k] = DefaultCtx]
       IN  IF ~Protected(path)
           THEN /\ reqs' = [reqs EXCEPT ![r] = [rq EXCEPT !.pc = "mw_call", !.kind = "open"]]
                /\ ctx' = new
           ELSE IF token = NoToken
           THEN /\ reqs' = [reqs EXCEPT ![r] = Ended(rq, 401, "Bearer token required")]
                /\ ctx' = new
           ELSE IF verify_access_token(token, MCP_ENDPOINT, now) # 0
           THEN /\ reqs' = [reqs EXCEPT ![r] = Ended(rq, 401, "invalid_token")]
                /\ ctx' = new
           ELSE IF QueryUser(token.sub) = {}
           THEN \* return inside the inner try: the finally clause runs
                /\ reqs' = [reqs EXCEPT ![r] =
                        [Ended(rq, 401, "User account no longer exists") EXCEPT
                                !.db = "closed", !.token = token]]
                /\ ctx' = [ctx EXCEPT ![k] = clear_user_id(new[k])]
           ELSE /\ reqs' = [reqs EXCEPT ![r] = [rq EXCEPT !.pc = "mw_call", !.db = "open"]]
                /\ ctx' = [ctx EXCEPT ![k] = set_user_id(new[k], token.sub, token)]
    /\ UNCHANGED <<now, advances, fresh, clients, users, codes, tokens, handed,
                   schwab_oauth_states, user_credentials, janitor, stop_event>>

\* await call_next(request): the next stage runs in a task of its own, started
\* with a copy of the caller's context
CallNext(r) ==
    /\ reqs[r].pc = "mw_call"
    /\ reqs' = [reqs EXCEPT ![r] = [@ EXCEPT !.pc = "handler", !.called = TRUE,
                                              !.hctx = ctx[TaskContext(r)]]]
    /\ UNCHANGED <<now, advances, fresh, clients, users, codes, tokens, ctx, handed,
                   schwab_oauth_states, user_credentials, janitor, stop_event>>

\* the downstream handler (a tool through get_user_context_from_ctx) reads the
\* binding; it raises when get_user_id raises, and may raise for reasons of
\* its own
HandlerRun(r, fails) ==
    /\ reqs[r].pc = "handler"
    /\ LET c == reqs[r].hctx
       IN  reqs' = [reqs EXCEPT ![r] = [@ EXCEPT !.pc = "mw_finally",
                        !.seen_user = get_user_id(c),
                        !.seen_token = get_current_token(c),
                        !.raised = fails \/ (reqs[r].kind = "mcp" /\ GetUserIdRaises(c))]]
    /\ UNCHANGED <<now, advances, fresh, clients, users, codes, tokens, ctx, handed,
                   schwab_oauth_states, user_credentials, janitor, stop_event>>

\* call_next has returned or raised.  On a protected path the finally clause
\* clears the binding and closes the session, and an exception of the next
\* stage is answered 401 by the outer except; elsewhere the response or the
\* exception passes through.
MwFinally(r) ==
    /\ reqs[r].pc = "mw_finally"
    /\ LET k == TaskContext(r)
           status == IF ~reqs[r].raised THEN 200
                     ELSE IF reqs[r].kind = "mcp" THEN 401 ELSE 500
           detail == IF ~reqs[r].raised THEN ""
                     ELSE IF reqs[r].kind = "mcp" THEN "invalid_token: next stage raised"
                     ELSE "exception"
       IN  /\ reqs' = [reqs EXCEPT ![r] = [Ended(reqs[r], status, detail) EXCEPT
                            !.called = TRUE,
                            !.db = IF reqs[r].kind = "mcp" THEN "closed" ELSE reqs[r].db]]
           /\ ctx' = IF reqs[r].kind = "mcp"
                     THEN [ctx EXCEPT ![k] = clear_user_id(ctx[k])]
                     ELSE ctx
    /\ UNCHANGED <<now, advances, fresh, clients, users, codes, tokens, handed,
                   schwab_oauth_states, user_credentials, janitor, stop_event>>

(***************************************************************************)
(* Removal of a user account by the operator.  Through the ORM the delete  *)
(* cascades to the user's codes and tokens (cascade="all, delete-orphan"); *)
(* a DELETE issued on a database that does not enforce the foreign keys    *)
(* leaves them behind.                                                     *)
(***************************************************************************)
DeleteUser(user_id, cascade) ==
    /\ \E u \in users : u.user_id = user_id
    /\ users' = {u \in users : u.user_id # user_id}
    /\ codes' = IF cascade THEN {c \in codes : c.user_id # user_id} ELSE codes
    /\ tokens' = IF cascade THEN {t \in tokens : t.user_id # user_id} ELSE tokens
    /\ UNCHANGED <<now, advances, fresh, clients, reqs, ctx, handed,
                   schwab_oauth_states, user_credentials, janitor, stop_event>>

(***************************************************************************)
(* Specification of the authorization-code flow: registration, login,     *)
(* concurrent code exchanges, the clock.                                   *)
(***************************************************************************)
GoodRedirect == "http://localhost:3000/cb"

RegisterA == register_client("mcp-A", {GoodRedirect})

LoginA ==
    \E v \in Verifiers, res \in Resources :
        authorize_login("a@x.com", "password123", "mcp-A", GoodRedirect,
                        S256Challenge(v), "S256", res, "trading")

PresentCode(r) ==
    \E c \in codes, ru \in RedirectUris, v \in Verifiers, cid \in ClientIds, res \in Resources :
        CodeGrantRead(r, c.code, ru, v, cid, res)

NextExchange ==
    \/ RegisterA
    \/ LoginA
    \/ \E r \in Reqs : PresentCode(r)
    \/ \E r \in Reqs : CodeGrantMarkUsed(r)
    \/ \E r \in Reqs : CodeGrantInsert(r)
    \/ \E d \in {1, TicksPerSecond, Minutes(CODE_EXPIRE_MINUTES)} : Advance(d)

SpecExchange == Init /\ [][NextExchange]_vars

(***************************************************************************)
(* Claims about the authorization-code grant.                              *)
(***************************************************************************)
\* the codes for which an exchange has returned a token pair
Redeemed == {h.via : h \in handed}

\* the exchanges of code c that are past the SELECT and not yet answered
InFlightOn(c) == {r \in Reqs : reqs[r].pc \in {"cg_mark", "cg_insert"} /\ reqs[r].code = c}

\* C1: once an exchange of a code has succeeded, an exchange of the same code
\* that arrives afterwards, whatever verifier, redirect_uri, client_id and
\* resource it presents (the correct ones included), is rejected with 400 at
\* its SELECT, so it never reaches the INSERT of an oauth_tokens row.
C1_ReplayRejected ==
    \A c \in codes :
        c.code \in Redeemed =>
            \A ru \in RedirectUris, v \in Verifiers, cid \in ClientIds, res \in Resources :
                CodeGrantArrival(c.code, ru, v, cid, res).err # ""

\* a replay of a redeemed code has been answered 400
\* (the slot that redeemed the code is the only one used so far, so the
\* rejected request in it came after the redemption)
C1_Witness ==
    /\ \E c \in codes : c.code \in Redeemed
    /\ \E r \in Reqs :
        /\ reqs[r].pc = "done" /\ reqs[r].kind = "code_grant"
        /\ reqs[r].status = 400 /\ reqs[r].detail = "Invalid authorization code"
        /\ \A o \in Reqs \ {r} : reqs[o].pc = "idle"

\* C2: when all concurrent exchanges of one code have been answered, exactly
\* one of them has succeeded and exactly one oauth_tokens row stems from it.
C2_ExactlyOneSuccess ==
    \A c \in codes :
        (c.used /\ InFlightOn(c.code) = {})
            => Cardinality({h \in handed : h.via = c.code}) = 1

\* C11: for an unused, unexpired code presented with its client_id,
\* redirect_uri and resource, the exchange gets past its checks exactly when
\* base64url-without-padding of SHA-256 of the verifier is the stored
\* code_challenge; with another verifier it is answered 400 "Invalid
\* code_verifier", and a request answered 400 leaves the codes (the used flag
\* included) and the token rows as they were.
C11_PkceGate ==
    /\ [](\A r \in Reqs :
            reqs[r].pc \in {"cg_mark", "cg_insert"}
                => S256Challenge(reqs[r].code_verifier) = reqs[r].row.code_challenge)
    /\ [](\A c \in codes, v \in Verifiers :
            (~c.used /\ ~(c.expires_at < now))
                => LET a == CodeGrantArrival(c.code, c.redirect_uri, v, c.client_id,
                                             c.resource_parameter)
                   IN  IF S256Challenge(v) = c.code_challenge
                       THEN a.err = ""
                       ELSE a.err = "Invalid code_verifier")
    /\ [][\A r \in Reqs :
            (Free(r) /\ reqs'[r] # reqs[r] /\ reqs'[r].kind = "code_grant"
                     /\ reqs'[r].pc = "done" /\ reqs'[r].status = 400)
                => codes' = codes /\ tokens' = tokens]_vars

\* an exchange with a wrong verifier has been answered 400 and the code has
\* then been redeemed (a wrong verifier presented after the redemption is
\* answered "Invalid authorization code")
C11_Witness ==
    /\ \E r \in Reqs : /\ reqs[r].pc = "done" /\ reqs[r].kind = "code_grant"
                       /\ reqs[r].status = 400 /\ reqs[r].detail = "Invalid code_verifier"
    /\ \E c \in codes : c.used /\ c.code \in Redeemed

\* the details of the 400s raised by the checks of redirect_uri, PKCE and
\* resource
ClauseDetails == {"redirect_uri mismatch", "Invalid code_verifier",
                  "resource parameter mismatch"}

\* C20: two exchanges rejected by the redirect_uri, PKCE or resource check
\* are answered with the same status and the same body.
C20_MismatchIndistinguishable ==
    \A r1, r2 \in Reqs :
        (/\ reqs[r1].pc = "done" /\ reqs[r1].kind = "code_grant"
         /\ reqs[r2].pc = "done" /\ reqs[r2].kind = "code_grant"
         /\ reqs[r1].detail \in ClauseDetails
         /\ reqs[r2].detail \in ClauseDetails)
            => /\ reqs[r1].status = reqs[r2].status
               /\ reqs[r1].detail = reqs[r2].detail

\* C12: marking the code used and persisting the token row are one
\* transaction: in every state a code that is used has a token row created
\* from its exchange.
C12_UsedImpliesToken ==
    \A c \in codes : c.used => \E h \in handed : h.via = c.code

\* C17: an unused code presented with its verifier, redirect_uri, client_id
\* and resource gets past the checks at every time before its expires_at and
\* is answered 400 "Authorization code expired" at every time after it; the
\* rejection leaves the code unused and creates no token row.
C17_ExpiryGate ==
    /\ [](\A c \in codes, v \in Verifiers :
            (~c.used /\ S256Challenge(v) = c.code_challenge)
                => LET a == CodeGrantArrival(c.code, c.redirect_uri, v, c.client_id,
                                             c.resource_parameter)
                   IN  /\ now < c.expires_at => a.err = ""
                       /\ now > c.expires_at => a.err = "Authorization code expired")
    /\ [][\A r \in Reqs :
            (Free(r) /\ reqs'[r] # reqs[r] /\ reqs'[r].kind = "code_grant"
                     /\ reqs'[r].detail = "Authorization code expired")
                => /\ reqs'[r].pc = "done" /\ reqs'[r].status = 400
                   /\ codes' = codes /\ tokens' = tokens]_vars

\* one tick after its expires_at an unused code has been presented and
\* rejected as expired
C17_Witness ==
    /\ \E r \in Reqs : /\ reqs[r].pc = "done" /\ reqs[r].kind = "code_grant"
                       /\ reqs[r].status = 400
                       /\ reqs[r].detail = "Authorization code expired"
    /\ \E c \in codes : ~c.used /\ now = c.expires_at + 1

(***************************************************************************)
(* Specification of the token life cycle: tokens are obtained with a      *)
(* correct code exchange, then refreshed and revoked concurrently.         *)
(***************************************************************************)
\* an exchange with the parameters the code was issued for
RedeemCode(r) ==
    \E c \in codes, v \in Verifiers :
        /\ S256Challenge(v) = c.code_challenge
        /\ CodeGrantRead(r, c.code, c.redirect_uri, v, c.client_id, c.resource_parameter)

GuardLogin ==
    authorize_login("a@x.com", "password123", "mcp-A", GoodRedirect,
                    S256Challenge("verifier-1"), "S256", MCP_ENDPOINT, "trading")

HandedRefresh == {h.refresh : h \in handed}
HandedAccess == {h.access : h \in handed}

PresentRefresh(r) ==
    \E rt \in HandedRefresh, cid \in ClientIds, res \in Resources :
        RefreshRead(r, rt, cid, res)

NextRefresh ==
    \/ RegisterA
    \/ LoginA
    \/ \E r \in Reqs : RedeemCode(r)
    \/ \E r \in Reqs : CodeGrantMarkUsed(r)
    \/ \E r \in Reqs : CodeGrantInsert(r)
    \/ \E r \in Reqs : PresentRefresh(r)
    \/ \E r \in Reqs : RefreshCommit(r)
    \/ \E d \in {1, TicksPerSecond} : Advance(d)

SpecRefresh == Init /\ [][NextRefresh]_vars

SessionRefresh(r) ==
    \E rt \in HandedRefresh : RefreshRead(r, rt, "mcp-A", MCP_ENDPOINT)

SessionRevoke(r) ==
    \E t \in HandedRefresh \cup HandedAccess, hint \in {"", "access_token"} :
        RevokeRead(r, t, hint, "")

NextSession ==
    \/ RegisterA
    \/ GuardLogin
    \/ \E r \in TokenSlots : RedeemCode(r)
    \/ \E r \in TokenSlots : CodeGrantMarkUsed(r)
    \/ \E r \in TokenSlots : CodeGrantInsert(r)
    \/ \E r \in Reqs : SessionRefresh(r)
    \/ \E r \in Reqs : RefreshCommit(r)
    \/ \E r \in Reqs : SessionRevoke(r)
    \/ \E r \in Reqs : RevokeCommit(r)
    \/ \E r \in Reqs, t \in HandedAccess : revoke_current_session(r, t)
    \/ \E r \in Reqs, t \in HandedAccess : revoke_all_sessions(r, t)
    \/ \E r \in Reqs : SessionRevokeCommit(r)
    \/ \E r \in Reqs \ TokenSlots, t \in HandedAccess : MwArrive(r, McpPath, t)
    \/ \E r \in Reqs \ TokenSlots : CallNext(r)
    \/ \E r \in Reqs \ TokenSlots : HandlerRun(r, FALSE)
    \/ \E r \in Reqs \ TokenSlots : MwFinally(r)
    \/ Advance(TicksPerSecond)

SpecSession == Init /\ [][NextSession]_vars

(***************************************************************************)
(* Claims about revocation (SpecSession).                                  *)
(***************************************************************************)
\* C9: revocation is sticky: no step of any handler takes a row whose
\* revoked flag is true to a state where the same row has it false; a refresh
\* that rewrites the hashes of a revoked row leaves the flag set.
C9_RevocationSticky ==
    [][\A t \in tokens : t.revoked => \A u \in tokens' : u.rid = t.rid => u.revoked]_vars

\* a refresh has committed onto a row that was revoked after the refresh had
\* read it, and the row, now holding the new refresh hash, is still revoked
C9_Witness ==
    \E r \in Reqs, t \in tokens :
        /\ reqs[r].pc = "done" /\ reqs[r].kind = "refresh_grant" /\ reqs[r].status = 200
        /\ reqs[r].row.revoked
        /\ t.rid = reqs[r].row.rid
        /\ t.refresh_token_hash = Sha256Hex(reqs[r].refresh)
        /\ t.revoked

\* C13: a POST /revoke with a refresh token whose hash matches a row revokes
\* that row, whatever the token_type_hint: it is never answered as "not
\* found" while a row holds the hash; and a revoked row fails the
\* database-backed check of its access token and the lookup of the refresh
\* grant.
C13_RefreshTokenRevokes ==
    /\ \A r \in Reqs :
          (reqs[r].pc = "done" /\ reqs[r].kind = "revoke" /\ reqs[r].detail = "not found")
              => \A t \in tokens : t.refresh_token_hash # Sha256Hex(reqs[r].token)
    /\ \A t \in tokens, h \in handed :
          (t.revoked /\ t.token_hash = Sha256Hex(h.access)
                     /\ t.refresh_token_hash = Sha256Hex(h.refresh))
              => /\ QueryActiveToken(h.access) = {}
                 /\ \A cid \in ClientIds : QueryRefresh(h.refresh, cid) = {}

\* C14: every POST /revoke is answered 200, and one that finds its row
\* already revoked leaves the token rows exactly as they were.
C14_RevokeAlways200 ==
    /\ [](\A r \in Reqs :
            (reqs[r].pc = "done" /\ reqs[r].kind = "revoke") => reqs[r].status = 200)
    /\ [][\A r \in Reqs :
            (reqs[r].pc = "rv_commit" /\ reqs[r].row.revoked /\ reqs'[r].pc = "done")
                => tokens' = tokens]_vars

(***************************************************************************)
(* Specification of the revocation endpoint: tokens of client mcp-A are    *)
(* revoked with every hint and with the client_id absent, right and wrong, *)
(* while they are refreshed.                                               *)
(***************************************************************************)
PresentRevoke(r) ==
    \E t \in HandedRefresh \cup HandedAccess, hint \in TokenTypeHints,
       cid \in ClientIds \cup {""} :
        RevokeRead(r, t, hint, cid)

NextRevoke ==
    \/ RegisterA
    \/ GuardLogin
    \/ \E r \in TokenSlots : RedeemCode(r)
    \/ \E r \in TokenSlots : CodeGrantMarkUsed(r)
    \/ \E r \in TokenSlots : CodeGrantInsert(r)
    \/ \E r \in Reqs : SessionRefresh(r)
    \/ \E r \in Reqs : RefreshCommit(r)
    \/ \E r \in Reqs : PresentRevoke(r)
    \/ \E r \in Reqs : RevokeCommit(r)

SpecRevoke == Init /\ [][NextRevoke]_vars

\* C15: a POST /revoke whose client_id differs from the client_id of the row
\* it finds is answered 200 without going on to the write, and leaves every
\* row as it was.
C15_ClientMismatchNoOp ==
    /\ [](\A r \in Reqs :
            reqs[r].pc = "rv_commit"
                => reqs[r].client_id = "" \/ reqs[r].client_id = reqs[r].row.client_id)
    /\ [][\A r \in Reqs :
            (Free(r) /\ reqs'[r] # reqs[r] /\ reqs'[r].kind = "revoke"
                     /\ reqs'[r].detail = "client mismatch")
                => /\ reqs'[r].pc = "done" /\ reqs'[r].status = 200
                   /\ tokens' = tokens /\ codes' = codes /\ users' = users
                   /\ clients' = clients]_vars

\* a revocation with another client's id has been answered and no row is
\* revoked
C15_Witness ==
    /\ \E r \in Reqs : /\ reqs[r].pc = "done" /\ reqs[r].kind = "revoke"
                       /\ reqs[r].status = 200 /\ reqs[r].detail = "client mismatch"
    /\ tokens # {}
    /\ \A t \in tokens : ~t.revoked

(***************************************************************************)
(* Specification of renewal: a session is refreshed with right and wrong   *)
(* client_id and resource, after the access token and after the refresh    *)
(* token have expired, and after it has been revoked.                      *)
(***************************************************************************)
GuardRevoke(r) ==
    \E t \in HandedAccess : RevokeRead(r, t, "", "")

NextRenew ==
    \/ RegisterA
    \/ GuardLogin
    \/ \E r \in TokenSlots : RedeemCode(r)
    \/ \E r \in TokenSlots : CodeGrantMarkUsed(r)
    \/ \E r \in TokenSlots : CodeGrantInsert(r)
    \/ \E r \in Reqs : PresentRefresh(r)
    \/ \E r \in Reqs : RefreshCommit(r)
    \/ \E r \in TokenSlots : GuardRevoke(r)
    \/ \E r \in TokenSlots : RevokeCommit(r)
    \/ \E d \in {Minutes(ACCESS_TOKEN_EXPIRE_MINUTES) + 1, Days(REFRESH_TOKEN_EXPIRE_DAYS)} :
          Advance(d)

SpecRenew == Init /\ [][NextRenew]_vars

\* the rows that entitle a refresh request to a new pair
Refreshable(refresh_token, client_id, resource) ==
    {t \in tokens : /\ t.refresh_token_hash = Sha256Hex(refresh_token)
                    /\ t.client_id = client_id
                    /\ ~t.revoked
                    /\ ~(t.refresh_expires_at < now)
                    /\ t.resource_parameter = resource}

\* C16: a refresh request gets past its checks exactly when a row has the
\* hash of the presented token, the presented client_id, revoked false, a
\* refresh_expires_at that is not in the past and the presented resource; a
\* request that does not is answered 400 and leaves the rows as they were;
\* the expiry of the access token plays no part.
C16_RefreshGate ==
    /\ [](\A rt \in HandedRefresh, cid \in ClientIds, res \in Resources :
            (RefreshArrival(rt, cid, res).err = "") <=> (Refreshable(rt, cid, res) # {}))
    /\ [](\A r \in Reqs :
            reqs[r].pc = "rg_commit"
                => /\ reqs[r].row.refresh_token_hash = Sha256Hex(reqs[r].token)
                   /\ reqs[r].row.client_id = reqs[r].client_id
                   /\ reqs[r].row.resource_parameter = reqs[r].resource
                   /\ ~reqs[r].row.revoked)
    /\ [][\A r \in Reqs :
            (Free(r) /\ reqs'[r] # reqs[r] /\ reqs'[r].kind = "refresh_grant"
                     /\ reqs'[r].pc = "done")
                => reqs'[r].status = 400 /\ tokens' = tokens]_vars

\* a refresh has succeeded on a row whose expires_at had passed when the
\* refresh committed (the new expires_at is the commit time plus the access
\* token lifetime)
C16_Witness ==
    \E r \in Reqs, t \in tokens :
        /\ reqs[r].pc = "done" /\ reqs[r].kind = "refresh_grant" /\ reqs[r].status = 200
        /\ t.refresh_token_hash = Sha256Hex(reqs[r].refresh)
        /\ reqs[r].row.expires_at < t.expires_at - Minutes(ACCESS_TOKEN_EXPIRE_MINUTES)

(***************************************************************************)
(* Claims about the refresh grant (SpecRefresh).                           *)
(***************************************************************************)
\* C4: after a successful refresh the hash of the previous access token and
\* the hash of the previous refresh token match no oauth_tokens row, whatever
\* the time between issuance and refresh (the same clock second included).
C4_OldHashesGone ==
    \A p \in handed, h \in handed :
        h.via = p.refresh =>
            \A t \in tokens : /\ t.token_hash # Sha256Hex(p.access)
                              /\ t.refresh_token_hash # Sha256Hex(p.refresh)

\* C5: of the refresh grants presenting one refresh token at most one returns
\* a pair, and a returned refresh token that has not been used since is the
\* one the row holds.
C5_AtomicRotation ==
    /\ \A rt \in HandedRefresh : Cardinality({h \in handed : h.via = rt}) <= 1
    /\ \A h \in handed :
          h.refresh \notin Redeemed =>
              \E t \in tokens : t.refresh_token_hash = Sha256Hex(h.refresh)

(***************************************************************************)
(* Specification of the protected resource: two users obtain tokens and    *)
(* present them to the gateway concurrently, and refresh them.             *)
(***************************************************************************)
GatewayLoginA ==
    \E res \in Resources :
        authorize_login("a@x.com", "password123", "mcp-A", GoodRedirect,
                        S256Challenge("verifier-1"), "S256", res, "trading")

GatewayLoginB ==
    authorize_login("b@x.com", "password456", "mcp-A", GoodRedirect,
                    S256Challenge("verifier-2"), "S256", MCP_ENDPOINT, "trading")

PresentBearer(r) ==
    \E path \in Paths, t \in HandedAccess \cup {NoToken} : MwArrive(r, path, t)

GatewayRefresh(r) ==
    \E rt \in HandedRefresh, res \in Resources : RefreshRead(r, rt, "mcp-A", res)

NextGateway ==
    \/ RegisterA
    \/ GatewayLoginA
    \/ GatewayLoginB
    \/ \E r \in TokenSlots : RedeemCode(r)
    \/ \E r \in TokenSlots : CodeGrantMarkUsed(r)
    \/ \E r \in TokenSlots : CodeGrantInsert(r)
    \/ \E r \in TokenSlots : GatewayRefresh(r)
    \/ \E r \in TokenSlots : RefreshCommit(r)
    \/ \E r \in Reqs : PresentBearer(r)
    \/ \E r \in Reqs : CallNext(r)
    \/ \E r \in Reqs, fails \in BOOLEAN : HandlerRun(r, fails)
    \/ \E r \in Reqs : MwFinally(r)

SpecGateway == Init /\ [][NextGateway]_vars

(***************************************************************************)
(* Specification of the guard: one user's token is presented while it is   *)
(* revoked, while the account is removed, and after it has expired.        *)
(***************************************************************************)
RemoveAccount ==
    \E u \in users, cascade \in BOOLEAN : DeleteUser(u.user_id, cascade)

NextGuard ==
    \/ RegisterA
    \/ GuardLogin
    \/ \E r \in TokenSlots : RedeemCode(r)
    \/ \E r \in TokenSlots : CodeGrantMarkUsed(r)
    \/ \E r \in TokenSlots : CodeGrantInsert(r)
    \/ \E r \in TokenSlots : GuardRevoke(r)
    \/ \E r \in TokenSlots : RevokeCommit(r)
    \/ \E r \in Reqs \ TokenSlots : PresentBearer(r)
    \/ \E r \in Reqs \ TokenSlots : CallNext(r)
    \/ \E r \in Reqs \ TokenSlots, fails \in BOOLEAN : HandlerRun(r, fails)
    \/ \E r \in Reqs \ TokenSlots : MwFinally(r)
    \/ RemoveAccount
    \/ Advance(Minutes(ACCESS_TOKEN_EXPIRE_MINUTES) + TicksPerSecond)

SpecGuard == Init /\ [][NextGuard]_vars

(***************************************************************************)
(* Claims about the gateway (SpecGateway).                                 *)
(***************************************************************************)
InMiddleware(r) == reqs[r].kind = "mcp" /\ reqs[r].pc \in {"mw_call", "handler", "mw_finally"}

\* the binding set_user_id leaves for a token
BindingOf(token) == [user_id |-> token.sub, authenticated |-> TRUE, token |-> token]

\* C6: an access token returned by either grant has the aud of the
\* resource_parameter stored with its code and with its row; a request whose
\* token has another aud than MCP_ENDPOINT never gets past the middleware: no
\* binding is set for it and the next stage is not invoked.
C6_AudienceBound ==
    /\ \A h \in handed :
          /\ \A c \in codes : h.via = c.code => h.access.aud = c.resource_parameter
          /\ \A t \in tokens : t.token_hash = Sha256Hex(h.access)
                                  => h.access.aud = t.resource_parameter
    /\ \A r \in Reqs :
          /\ InMiddleware(r) => reqs[r].token.aud = MCP_ENDPOINT
          /\ (reqs[r].kind = "mcp" /\ reqs[r].pc = "done" /\ ~reqs[r].called)
                => ctx[TaskContext(r)] = DefaultCtx

\* the only tokens handed out are for another resource, the clock has not
\* moved, and a request with a bearer token has been answered 401 without the
\* next stage being invoked
C6_Witness ==
    /\ HandedAccess # {}
    /\ \A a \in HandedAccess : a.aud # MCP_ENDPOINT
    /\ now = 0
    /\ \E r \in Reqs : /\ reqs[r].pc = "done" /\ reqs[r].kind = "mcp"
                       /\ reqs[r].status = 401 /\ reqs[r].detail = "invalid_token"
                       /\ ~reqs[r].called

\* C7: what the next stage is started with, and what the handler reads, is
\* the binding of the token its own request presented.
C7_OwnBinding ==
    \A r \in Reqs :
        /\ (reqs[r].kind = "mcp" /\ reqs[r].pc = "handler")
              => reqs[r].hctx = BindingOf(reqs[r].token)
        /\ (reqs[r].kind = "mcp" /\ reqs[r].pc = "mw_finally")
              => /\ reqs[r].seen_user = reqs[r].token.sub
                 /\ reqs[r].seen_token = reqs[r].token

\* a handler has read its binding while a request of another user was inside
\* the middleware
C7_Witness ==
    \E r \in Reqs, o \in Reqs :
        /\ r # o
        /\ reqs[r].kind = "mcp" /\ reqs[r].pc = "mw_finally"
        /\ InMiddleware(o)
        /\ reqs[o].token.sub # reqs[r].token.sub
        /\ reqs[r].seen_user = reqs[r].token.sub

(***************************************************************************)
(* Claims about the guard (SpecGuard).                                     *)
(***************************************************************************)
\* C3: a request to a protected path whose access token's row is revoked (a
\* POST /revoke for it has committed) does not get past the middleware.
C3_RevokedRejected ==
    [][\A r \in Reqs :
          (Free(r) /\ reqs'[r].kind = "mcp" /\ reqs'[r].pc = "mw_call")
              => ~\E t \in tokens : /\ t.token_hash = Sha256Hex(reqs'[r].token)
                                    /\ t.revoked]_vars

\* C8: on a protected path the binding is set and the session open when the
\* next stage is invoked and while it runs; once the request is answered the
\* binding is cleared and the session closed; a rejected request has not
\* invoked the next stage; on an exempt path the next stage runs unbound.
C8_BindingLifecycle ==
    \A r \in Reqs :
        /\ (reqs[r].kind = "mcp" /\ reqs[r].pc = "mw_call")
              => ctx[TaskContext(r)] = BindingOf(reqs[r].token) /\ reqs[r].db = "open"
        /\ (reqs[r].kind = "mcp" /\ reqs[r].pc = "handler")
              => reqs[r].hctx = BindingOf(reqs[r].token) /\ reqs[r].db = "open"
        /\ (reqs[r].kind = "mcp" /\ reqs[r].pc = "mw_finally") => reqs[r].db = "open"
        /\ (reqs[r].kind = "mcp" /\ reqs[r].pc = "done")
              => /\ ctx[TaskContext(r)] = DefaultCtx
                 /\ reqs[r].db # "open"
                 /\ reqs[r].detail \in {"Bearer token required", "invalid_token",
                                        "User account no longer exists"} => ~reqs[r].called
        /\ (reqs[r].kind = "open" /\ reqs[r].pc \in {"handler", "mw_finally"})
              => reqs[r].hctx = DefaultCtx

\* the next stage of a protected request has raised, and the request has
\* been answered with the binding cleared and the session closed
C8_Witness ==
    \E r \in Reqs :
        /\ reqs[r].kind = "mcp" /\ reqs[r].pc = "done" /\ reqs[r].called
        /\ reqs[r].detail = "invalid_token: next stage raised"
        /\ reqs[r].db = "closed"
        /\ ctx[TaskContext(r)] = DefaultCtx

\* C10: a request rejected because the token's user is gone leaves the
\* token's row revoked.
C10_AutoRevoke ==
    \A r \in Reqs :
        (reqs[r].pc = "done" /\ reqs[r].detail = "User account no longer exists")
            => \A t \in tokens : t.token_hash = Sha256Hex(reqs[r].token) => t.revoked

(***************************************************************************)
(* GET /setup/schwab/initiate: the SchwabOAuthState row is stored and      *)
(* committed, then the browser is redirected to the brokerage.  The        *)
(* deployment sets SCHWAB_APP_KEY and SCHWAB_APP_SECRET.                   *)
(***************************************************************************)
SCHWAB_STATE_EXPIRE_MINUTES == 10

Hours(h) == Minutes(60 * h)

\* Optional[str] = None: the handlers only test the password for truth
NoPassword == ""

NewSchwabState(n, email, password, t) ==
    [state |-> Opaque(n), email |-> email, password |-> password,
     code_verifier |-> Opaque(n + 1),
     expires_at |-> t + Minutes(SCHWAB_STATE_EXPIRE_MINUTES), created_at |-> t]

schwab_oauth_initiate(email, password) ==
    /\ fresh + 2 <= MaxNonce
    /\ schwab_oauth_states' =
           schwab_oauth_states \cup {NewSchwabState(fresh, email, password, now)}
    /\ fresh' = fresh + 2
    /\ UNCHANGED <<now, advances, clients, users, codes, tokens, reqs, ctx, handed,
                   user_credentials, janitor, stop_event>>

(***************************************************************************)
(* GET /setup/schwab/callback.  The handler awaits the brokerage twice     *)
(* (token exchange, account numbers) between its SELECT and its last       *)
(* commit; each await ends one step.  An HTTPException raised inside the   *)
(* try block is re-raised as it is; any other exception deletes the state  *)
(* row, commits and answers 500.                                           *)
(***************************************************************************)
\* a callback that has been answered: the response and the state it carried
SchwabEnded(rq, status, detail) ==
    [Ended(rq, status, detail) EXCEPT !.code = rq.code]

\* db.delete(oauth_state); db.commit(): DELETE ... WHERE state = :state
DeleteState(rows, state) == {s \in rows : s.state # state}

\* expires_at < current_time, a naive expires_at read as UTC
SchwabStateExpired(row, t) == row.expires_at < t

SchwabCallbackRead(r, state) ==
    /\ Free(r)
    /\ LET found == {s \in schwab_oauth_states : s.state = state}
           rq == [Idle EXCEPT !.kind = "schwab_callback", !.code = state]
       IN  IF found = {}
           THEN /\ reqs' = [reqs EXCEPT ![r] =
                               SchwabEnded(rq, 400, "Invalid or expired OAuth state")]
                /\ UNCHANGED schwab_oauth_states
           ELSE LET row == CHOOSE s \in found : TRUE
                IN  IF SchwabStateExpired(row, now)
                    THEN /\ schwab_oauth_states' = DeleteState(schwab_oauth_states, state)
                         /\ reqs' = [reqs EXCEPT ![r] =
                               SchwabEnded(rq, 400, "OAuth state expired - please try again")]
                    ELSE /\ reqs' = [reqs EXCEPT ![r] =
                               [rq EXCEPT !.pc = "sc_token", !.row = row]]
                         /\ UNCHANGED schwab_oauth_states
    /\ UNCHANGED <<now, advances, fresh, clients, users, codes, tokens, ctx, handed,
                   user_credentials, janitor, stop_event>>

\* what the POST to the brokerage's token endpoint comes to: a 200 with both
\* tokens, another status, a 200 without a token, or an exception of httpx
\* or of response.json()
TokenResponses == {"tokens", "non200", "missing_tokens", "error"}

SchwabCallbackToken(r, response) ==
    /\ reqs[r].pc = "sc_token"
    /\ LET rq == reqs[r]
       IN  CASE response = "tokens" ->
                    /\ reqs' = [reqs EXCEPT ![r].pc = "sc_accounts"]
                    /\ UNCHANGED schwab_oauth_states
             [] response = "non200" ->
                    /\ reqs' = [reqs EXCEPT ![r] =
                           SchwabEnded(rq, 500, "Failed to exchange code for tokens")]
                    /\ UNCHANGED schwab_oauth_states
             [] response = "missing_tokens" ->
                    /\ reqs' = [reqs EXCEPT ![r] =
                           SchwabEnded(rq, 500, "Missing tokens in Schwab response")]
                    /\ UNCHANGED schwab_oauth_states
             [] response = "error" ->
                    /\ reqs' = [reqs EXCEPT ![r] =
                           SchwabEnded(rq, 500, "Schwab OAuth failed")]
                    /\ schwab_oauth_states' = DeleteState(schwab_oauth_states, rq.row.state)
    /\ UNCHANGED <<now, advances, fresh, clients, users, codes, tokens, ctx, handed,
                   user_credentials, janitor, stop_event>>

\* what the GET of the account numbers comes to: a 200 with an account and
\* its hash, another status, an empty list, an account without hashValue, or
\* an exception
AccountResponses == {"accounts", "non200", "no_accounts", "no_hash", "error"}

SchwabCallbackAccounts(r, response) ==
    /\ reqs[r].pc = "sc_accounts"
    /\ LET rq == reqs[r]
       IN  CASE response = "accounts" ->
                    /\ reqs' = [reqs EXCEPT ![r].pc = "sc_store"]
                    /\ UNCHANGED schwab_oauth_states
             [] response = "non200" ->
                    /\ reqs' = [reqs EXCEPT ![r] =
                           SchwabEnded(rq, 500, "Failed to fetch Schwab accounts")]
                    /\ UNCHANGED schwab_oauth_states
             [] response = "no_accounts" ->
                    /\ reqs' = [reqs EXCEPT ![r] =
                           SchwabEnded(rq, 500, "No Schwab accounts found")]
                    /\ UNCHANGED schwab_oauth_states
             [] response = "no_hash" ->
                    /\ reqs' = [reqs EXCEPT ![r] =
                           SchwabEnded(rq, 500, "Account hash missing from Schwab response")]
                    /\ UNCHANGED schwab_oauth_states
             [] response = "error" ->
                    /\ reqs' = [reqs EXCEPT ![r] =
                           SchwabEnded(rq, 500, "Schwab OAuth failed")]
                    /\ schwab_oauth_states' = DeleteState(schwab_oauth_states, rq.row.state)
    /\ UNCHANGED <<now, advances, fresh, clients, users, codes, tokens, ctx, handed,
                   user_credentials, janitor, stop_event>>

\* The user is looked up or created (and committed), the credentials are
\* stored, the state row is deleted.  store_user_trading_credentials either
\* commits the credential row or raises (the call passes no environment, the
\* encryption service may be unconfigured): stored says which.
SchwabCallbackStore(r, stored) ==
    /\ reqs[r].pc = "sc_store"
    /\ LET rq == reqs[r]
           row == rq.row
           known == {u \in users : u.email = row.email}
       IN  IF known = {} /\ row.password = NoPassword
           THEN /\ reqs' = [reqs EXCEPT ![r] =
                       SchwabEnded(rq, 400, "Password required for new user")]
                /\ UNCHANGED <<fresh, users, user_credentials, schwab_oauth_states>>
           ELSE IF /\ known # {}
                   /\ row.password # NoPassword
                   /\ \A u \in known : ~verify_password(row.password, u.password_hash)
           THEN /\ reqs' = [reqs EXCEPT ![r] = SchwabEnded(rq, 401, "Invalid credentials")]
                /\ UNCHANGED <<fresh, users, user_credentials, schwab_oauth_states>>
           ELSE /\ known = {} => fresh + 1 <= MaxNonce
                /\ LET user_id == IF known = {} THEN fresh
                                  ELSE (CHOOSE u \in known : TRUE).user_id
                   IN  /\ users' = IF known = {}
                                   THEN users \cup {[user_id |-> fresh, email |-> row.email,
                                             password_hash |-> hash_password(row.password)]}
                                   ELSE users
                       /\ fresh' = IF known = {} THEN fresh + 1 ELSE fresh
                       /\ user_credentials' =
                              IF stored
                              THEN user_credentials \cup
                                       {[user_id |-> user_id, platform |-> "schwab"]}
                              ELSE user_credentials
                /\ schwab_oauth_states' = DeleteState(schwab_oauth_states, row.state)
                /\ reqs' = [reqs EXCEPT ![r] =
                       IF stored THEN SchwabEnded(rq, 200, "Schwab Setup Complete")
                       ELSE SchwabEnded(rq, 500, "Schwab OAuth failed")]
    /\ UNCHANGED <<now, advances, clients, codes, tokens, ctx, handed, janitor, stop_event>>

(***************************************************************************)
(* cleanup_loop: run_cleanup, then a wait of CLEANUP_INTERVAL_MINUTES.     *)
(* run_cleanup runs three bulk DELETEs, each in its own session and        *)
(* transaction, each with its own reading of the clock.                    *)
(***************************************************************************)
REVOKED_TOKEN_GRACE_PERIOD_DAYS == 7

\* asyncio.wait_for(stop_event.wait(), timeout) times out only while the
\* event is not set; the next iteration calls run_cleanup
cleanup_loop_wake ==
    /\ janitor = "sleep"
    /\ ~stop_event
    /\ janitor' = "codes"
    /\ UNCHANGED <<now, advances, fresh, clients, users, codes, tokens, reqs, ctx, handed,
                   schwab_oauth_states, user_credentials, stop_event>>

\* OAuthCode.expires_at < now - 1 hour
CodePurged(c, t) == c.expires_at < t - Hours(1)

\* OAuthToken.expires_at < cutoff, OAuthToken.refresh_expires_at < cutoff,
\* cutoff = now - 1 day
TokenExpiredPurged_either(tk, t) ==
    tk.expires_at < t - Days(1) \/ tk.refresh_expires_at < t - Days(1)

TokenExpiredPurged(tk, t) ==
    tk.expires_at < t - Days(1) /\ tk.refresh_expires_at < t - Days(1)

\* OAuthToken.revoked == True, OAuthToken.created_at < now - grace period
TokenRevokedPurged(tk, t) ==
    tk.revoked /\ tk.created_at < t - Days(REVOKED_TOKEN_GRACE_PERIOD_DAYS)

\* Each deletion either commits or fails inside its try block: the failure
\* is logged, the transaction rolled back, and run_cleanup goes on.
cleanup_expired_codes ==
    /\ janitor = "codes"
    /\ \E failed \in BOOLEAN :
          codes' = IF failed THEN codes ELSE {c \in codes : ~CodePurged(c, now)}
    /\ janitor' = "tokens"
    /\ UNCHANGED <<now, advances, fresh, clients, users, tokens, reqs, ctx, handed,
                   schwab_oauth_states, user_credentials, stop_event>>

cleanup_expired_tokens ==
    /\ janitor = "tokens"
    /\ \E failed \in BOOLEAN :
          tokens' = IF failed THEN tokens ELSE {t \in tokens : ~TokenExpiredPurged(t, now)}
    /\ janitor' = "revoked"
    /\ UNCHANGED <<now, advances, fresh, clients, users, codes, reqs, ctx, handed,
                   schwab_oauth_states, user_credentials, stop_event>>

cleanup_revoked_tokens ==
    /\ janitor = "revoked"
    /\ \E failed \in BOOLEAN :
          tokens' = IF failed THEN tokens ELSE {t \in tokens : ~TokenRevokedPurged(t, now)}
    /\ janitor' = "sleep"
    /\ UNCHANGED <<now, advances, fresh, clients, users, codes, reqs, ctx, handed,
                   schwab_oauth_states, user_credentials, stop_event>>

run_cleanup ==
    \/ cleanup_expired_codes
    \/ cleanup_expired_tokens
    \/ cleanup_revoked_tokens

\* stop_event.wait() returns: break
cleanup_loop_exit ==
    /\ janitor = "sleep"
    /\ stop_event
    /\ janitor' = "exited"
    /\ UNCHANGED <<now, advances, fresh, clients, users, codes, tokens, reqs, ctx, handed,
                   schwab_oauth_states, user_credentials, stop_event>>

\* an exception leaves run_cleanup (get_db() or the rollback of a deletion
\* raises, outside the try of the deletion): the rest of the cycle is
\* skipped, cleanup_loop logs it and awaits asyncio.sleep(60)
cleanup_raises ==
    /\ janitor \in {"codes", "tokens", "revoked"}
    /\ janitor' = "retry"
    /\ UNCHANGED <<now, advances, fresh, clients, users, codes, tokens, reqs, ctx, handed,
                   schwab_oauth_states, user_credentials, stop_event>>

\* the sleep of 60 seconds ends: the next iteration calls run_cleanup
cleanup_loop_retry ==
    /\ janitor = "retry"
    /\ janitor' = "codes"
    /\ UNCHANGED <<now, advances, fresh, clients, users, codes, tokens, reqs, ctx, handed,
                   schwab_oauth_states, user_credentials, stop_event>>

\* lifespan, after the yield: cleanup_stop_event.set(); await cleanup_task
lifespan_shutdown ==
    /\ ~stop_event
    /\ stop_event' = TRUE
    /\ UNCHANGED <<now, advances, fresh, clients, users, codes, tokens, reqs, ctx, handed,
                   schwab_oauth_states, user_credentials, janitor>>

(***************************************************************************)
(* Specification of the brokerage set-up flow: initiations, callbacks in   *)
(* the request slots, a login whose code the janitor purges, the clock and *)
(* the janitor.  SpecSchwabFair adds that the janitor task keeps running:  *)
(* the application starts cleanup_loop at start-up and the loop ends only  *)
(* on the stop event of shutdown.                                          *)
(***************************************************************************)
SchwabPasswords == {NoPassword, "password123", "hunter2"}

InitiateA == \E pw \in SchwabPasswords : schwab_oauth_initiate("a@x.com", pw)

PresentState(r) == \E s \in 1..MaxNonce : SchwabCallbackRead(r, Opaque(s))

NextSchwab ==
    \/ InitiateA
    \/ \E r \in TokenSlots : PresentState(r)
    \/ \E r \in TokenSlots, response \in TokenResponses : SchwabCallbackToken(r, response)
    \/ \E r \in TokenSlots, response \in AccountResponses : SchwabCallbackAccounts(r, response)
    \/ \E r \in TokenSlots, stored \in BOOLEAN : SchwabCallbackStore(r, stored)
    \/ RegisterA
    \/ GuardLogin
    \/ cleanup_loop_wake
    \/ run_cleanup
    \/ \E d \in {Minutes(SCHWAB_STATE_EXPIRE_MINUTES) + 1, Hours(1)} : Advance(d)

SpecSchwab == Init /\ [][NextSchwab]_vars

SpecSchwabFair == SpecSchwab /\ WF_vars(cleanup_loop_wake) /\ WF_vars(run_cleanup)

(***************************************************************************)
(* Claims about the brokerage set-up flow (SpecSchwab, SpecSchwabFair)     *)
(***************************************************************************)
\* C18: once a callback that found the state row has been answered, whatever
\* the answer, no row with that state is left (so that a second callback
\* with the same state is rejected as invalid).
C18_StateSingleUse ==
    \A r \in Reqs :
        (/\ reqs[r].pc = "done"
         /\ reqs[r].kind = "schwab_callback"
         /\ reqs[r].detail # "Invalid or expired OAuth state")
            => \A s \in schwab_oauth_states : s.state # reqs[r].code

\* C19: while the janitor keeps running, every state row that has expired
\* is eventually gone from schwab_oauth_states, a callback or none.
C19_StateEventuallyDeleted ==
    \A n \in 1..MaxNonce :
        (\E s \in schwab_oauth_states : s.state = Opaque(n) /\ s.expires_at < now)
            ~> (\A s \in schwab_oauth_states : s.state # Opaque(n))

(***************************************************************************)
(* Specification of the /token dispatch: requests of every grant_type,     *)
(* with a code, a refresh token, both or neither.                          *)
(***************************************************************************)
GrantTypes == {"authorization_code", "refresh_token", "client_credentials"}

PresentForm(r) ==
    \E gt \in GrantTypes,
       code \in {c.code : c \in codes} \cup {NoToken},
       rt \in HandedRefresh \cup {NoToken} :
        token_exchange(r, gt, code, GoodRedirect, "verifier-1", rt, "mcp-A", MCP_ENDPOINT)

NextToken ==
    \/ RegisterA
    \/ GuardLogin
    \/ \E r \in Reqs : PresentForm(r)
    \/ \E r \in Reqs : CodeGrantMarkUsed(r)
    \/ \E r \in Reqs : CodeGrantInsert(r)
    \/ \E r \in Reqs : RefreshCommit(r)
    \/ \E d \in {TicksPerSecond} : Advance(d)

SpecToken == Init /\ [][NextToken]_vars

(***************************************************************************)
(* Claims about the /token dispatch (SpecToken)                            *)
(***************************************************************************)
\* C21: no request that carries both a code and a refresh token gets past
\* the checks of a grant handler (so that it marks no code used, creates no
\* token row and rotates none), and a request with another grant_type than
\* authorization_code and refresh_token is answered 400.
C21_AmbiguousGrantRejected ==
    \A r \in Reqs :
        /\ (reqs[r].code # NoToken /\ reqs[r].token # NoToken)
               => reqs[r].pc \notin {"cg_mark", "cg_insert", "rg_commit"}
        /\ (reqs[r].pc = "done" /\ reqs[r].kind = "token") => reqs[r].status = 400

(***************************************************************************)
(* Claims about POST /authorize/login (SpecExchange)                       *)
(***************************************************************************)
\* C22: a login with bad credentials, an unknown e-mail or a wrong password,
\* is answered 401 and issues no code: every code a step adds belongs to a
\* user that was known before the step.
C22_BadCredentialsNoCode ==
    [][\A c \in codes' \ codes : \E u \in users : u.user_id = c.user_id]_vars

(***************************************************************************)
(* GET /authorize: validation of the query, then the login form.  The      *)
(* handler writes nothing; authorize is the status of its response.  An    *)
(* empty code_challenge is NoToken.                                        *)
(***************************************************************************)
SupportedScopes == {"trading"}

authorize(response_type, client_id, redirect_uri, code_challenge, code_challenge_method, resource, scope) ==
    IF response_type # "code" THEN 400
    ELSE IF code_challenge_method # "S256" THEN 400
    ELSE IF code_challenge = NoToken THEN 400
    ELSE IF resource = "" THEN 400
    ELSE IF (IF scope = "" THEN "trading" ELSE scope) \notin SupportedScopes THEN 400
    ELSE IF \A c \in clients : c.client_id # client_id THEN 400
    ELSE IF \A c \in clients : c.client_id = client_id => redirect_uri \notin c.redirect_uris
         THEN 400
    ELSE 200

(***************************************************************************)
(* Specification of the authorization endpoints: GET /authorize and POST   *)
(* /authorize/login with the form fields a client chooses, followed by the *)
(* exchange of the code.                                                   *)
(***************************************************************************)
ChallengeMethods == {"S256", "plain"}
Scopes == {"trading", "admin", ""}

AuthorizeGet ==
    /\ \E cid \in ClientIds, ru \in RedirectUris, method \in ChallengeMethods,
          scope \in Scopes :
          authorize("code", cid, ru, S256Challenge("verifier-1"), method, MCP_ENDPOINT,
                    scope) \in {200, 400}
    /\ UNCHANGED vars

DirectLogin ==
    \E cid \in ClientIds, ru \in RedirectUris, method \in ChallengeMethods,
       scope \in Scopes \ {""} :
        authorize_login("a@x.com", "password123", cid, ru, S256Challenge("verifier-1"),
                        method, MCP_ENDPOINT, scope)

NextAuthorize ==
    \/ RegisterA
    \/ AuthorizeGet
    \/ DirectLogin
    \/ \E r \in Reqs : RedeemCode(r)
    \/ \E r \in Reqs : CodeGrantMarkUsed(r)
    \/ \E r \in Reqs : CodeGrantInsert(r)
    \/ \E d \in {1, Minutes(CODE_EXPIRE_MINUTES)} : Advance(d)

SpecAuthorize == Init /\ [][NextAuthorize]_vars

(***************************************************************************)
(* Claims about the authorization endpoints (SpecAuthorize)                *)
(***************************************************************************)
\* C23: every stored code has code_challenge_method S256, a supported scope
\* and a redirect_uri registered for its client.
C23_StoredCodeWellFormed ==
    \A c \in codes :
        /\ c.code_challenge_method = "S256"
        /\ c.scope \in SupportedScopes
        /\ \E k \in clients : k.client_id = c.client_id /\ c.redirect_uri \in k.redirect_uris

(***************************************************************************)
(* The revoke_all_tokens tool of the MCP server.  The tool runs behind the *)
(* middleware: the token of its request has been verified, its user        *)
(* exists, and get_user_id() is the token's sub.  platform is optional ("" *)
(* when absent) and filters on client_id.                                  *)
(***************************************************************************)
\* db.query(OAuthToken).filter(user_id == u, revoked == False) and, with a
\* platform, .filter(client_id == platform)
QueryActiveOfUserClient(user_id, platform) ==
    {t \in QueryActiveOfUser(user_id) : platform # "" => t.client_id = platform}

revoke_all_tokens(r, token, platform) ==
    /\ Free(r)
    /\ verify_access_token(token, MCP_ENDPOINT, now) = 0
    /\ \E u \in users : u.user_id = token.sub
    /\ LET rq == [Idle EXCEPT !.kind = "revoke_all_tool", !.token = token,
                              !.client_id = platform]
           q == QueryActiveOfUserClient(token.sub, platform)
       IN  IF q = {}
           THEN reqs' = [reqs EXCEPT ![r] = Ended(rq, 200, "No active tokens found to revoke")]
           ELSE reqs' = [reqs EXCEPT ![r] = [rq EXCEPT !.pc = "rc_commit", !.rows = q]]
    /\ UNCHANGED <<now, advances, fresh, clients, users, codes, tokens, ctx, handed,
                   schwab_oauth_states, user_credentials, janitor, stop_event>>

(***************************************************************************)
(* Specification of the session revokes with two users: logins of a@x.com  *)
(* and b@x.com, exchanges, the three revoke operations, the clock and the  *)
(* janitor (which purges an old code, so that a user logs in again and     *)
(* holds two sessions).                                                    *)
(***************************************************************************)
LoginOf(email) ==
    authorize_login(email, "password123", "mcp-A", GoodRedirect,
                    S256Challenge("verifier-1"), "S256", MCP_ENDPOINT, "trading")

NextScope ==
    \/ RegisterA
    \/ \E email \in {"a@x.com", "b@x.com"} : LoginOf(email)
    \/ \E r \in TokenSlots : RedeemCode(r)
    \/ \E r \in TokenSlots : CodeGrantMarkUsed(r)
    \/ \E r \in TokenSlots : CodeGrantInsert(r)
    \/ \E r \in TokenSlots, t \in HandedAccess : revoke_current_session(r, t)
    \/ \E r \in TokenSlots, t \in HandedAccess : revoke_all_sessions(r, t)
    \/ \E r \in TokenSlots, t \in HandedAccess, platform \in ClientIds \cup {""} :
          revoke_all_tokens(r, t, platform)
    \/ \E r \in TokenSlots : SessionRevokeCommit(r)
    \/ cleanup_loop_wake
    \/ run_cleanup
    \/ \E d \in {Hours(1) + Minutes(CODE_EXPIRE_MINUTES) + 1} : Advance(d)

SpecScope == Init /\ [][NextScope]_vars

(***************************************************************************)
(* Claims about the session revokes (SpecScope)                            *)
(***************************************************************************)
RevokeAllKinds == {"revoke_all", "revoke_all_tool"}

NextJanitor ==
    \/ RegisterA
    \/ GuardLogin
    \/ \E r \in TokenSlots : RedeemCode(r)
    \/ \E r \in TokenSlots : CodeGrantMarkUsed(r)
    \/ \E r \in TokenSlots : CodeGrantInsert(r)
    \/ \E r \in TokenSlots : SessionRefresh(r)
    \/ \E r \in TokenSlots : RefreshCommit(r)
    \/ \E r \in TokenSlots : GuardRevoke(r)
    \/ \E r \in TokenSlots : RevokeCommit(r)
    \/ cleanup_loop_wake
    \/ run_cleanup
    \/ cleanup_raises
    \/ cleanup_loop_retry
    \/ cleanup_loop_exit
    \/ lifespan_shutdown
    \/ \E d \in {Hours(1) + Minutes(CODE_EXPIRE_MINUTES) + 1,
                 Days(REVOKED_TOKEN_GRACE_PERIOD_DAYS) + 1,
                 Days(REFRESH_TOKEN_EXPIRE_DAYS + 1) + 1} : Advance(d)

SpecJanitor == Init /\ [][NextJanitor]_vars

(***************************************************************************)
(* Claims about the janitor (SpecJanitor)                                  *)
(***************************************************************************)
\* C25: once the stop signal is set the loop ends with the cycle or the
\* sleep in progress: no cleanup cycle begins while the signal is set.
C25_NoCycleAfterStop ==
    [][(stop_event /\ janitor # "codes") => janitor' # "codes"]_vars

C27_RevokedKeptSevenDays ==
    [][(janitor = "revoked" /\ janitor' = "sleep") =>
          \A t \in tokens \ tokens' :
              /\ t.revoked
              /\ t.revoked_at + Days(REVOKED_TOKEN_GRACE_PERIOD_DAYS) <= now]_vars

(***************************************************************************)
(* Claims about the effect of a refresh (SpecFrame).                       *)
(***************************************************************************)
\* the columns of an OAuthToken row the refresh grant does not assign
SameSession(old, new) ==
    /\ new.user_id = old.user_id
    /\ new.client_id = old.client_id
    /\ new.resource_parameter = old.resource_parameter
    /\ new.scope = old.scope
    /\ new.revoked = old.revoked
    /\ new.created_at = old.created_at

\* C28: the commit of a refresh_token grant answered 200 replaces one row by
\* a row that differs from it in token_hash, refresh_token_hash, expires_at
\* and refresh_expires_at only: user_id, client_id, resource_parameter, scope,
\* revoked and created_at are those the row had, the number of rows is the
\* same, every other row is unchanged, the new hashes are those of the pair
\* returned, the claims sub, aud, client_id and scope of the new access token
\* are the row's values, and expires_at <= refresh_expires_at afterwards.
C28_RefreshFrame ==
    [][\A r \in Reqs :
          (reqs[r].pc = "rg_commit" /\ reqs'[r].pc = "done" /\ reqs'[r].status = 200) =>
              \E old \in tokens, new \in tokens' :
                  /\ tokens' \ {new} = tokens \ {old}
                  /\ Cardinality(tokens') = Cardinality(tokens)
                  /\ new.rid = old.rid
                  /\ SameSession(old, new)
                  /\ new.token_hash = Sha256Hex(reqs'[r].access)
                  /\ new.refresh_token_hash = Sha256Hex(reqs'[r].refresh)
                  /\ reqs'[r].access.sub = old.user_id
                  /\ reqs'[r].access.aud = old.resource_parameter
                  /\ reqs'[r].access.client_id = old.client_id
                  /\ reqs'[r].access.scope = old.scope
                  /\ new.expires_at <= new.refresh_expires_at]_vars

\* a refresh has been answered 200 some time after the session was created,
\* next to another session's row, and its commit came after the commit of a
\* revocation of the same row
C28_Witness ==
    \E r \in Reqs, t \in tokens, o \in tokens :
        /\ reqs[r].pc = "done" /\ reqs[r].kind = "refresh_grant" /\ reqs[r].status = 200
        /\ t.rid = reqs[r].row.rid
        /\ t.token_hash = Sha256Hex(reqs[r].access)
        /\ t.created_at < now
        /\ t.revoked
        /\ o.rid # t.rid

\* refreshes next to a second session of the same login and to revocations
NextFrame ==
    \/ RegisterA
    \/ GuardLogin
    \/ \E r \in Reqs : RedeemCode(r)
    \/ \E r \in Reqs : CodeGrantMarkUsed(r)
    \/ \E r \in Reqs : CodeGrantInsert(r)
    \/ \E r \in Reqs : PresentRefresh(r)
    \/ \E r \in Reqs : RefreshCommit(r)
    \/ \E r \in TokenSlots : GuardRevoke(r)
    \/ \E r \in TokenSlots : RevokeCommit(r)
    \/ Advance(Minutes(ACCESS_TOKEN_EXPIRE_MINUTES) + 1)

SpecFrame == Init /\ [][NextFrame]_vars

(***************************************************************************)
(* Claims about the janitor as seen by clients (SpecUnseen).               *)
(***************************************************************************)
\* the handlers make their database calls without awaiting in between: the
\* clock does not move while a request is between its SELECT and its commit
AdvanceIdle(d) ==
    /\ \A r \in Reqs : Free(r)
    /\ Advance(d)

NextUnseen ==
    \/ RegisterA
    \/ GuardLogin
    \/ \E r \in TokenSlots : RedeemCode(r)
    \/ \E r \in TokenSlots : CodeGrantMarkUsed(r)
    \/ \E r \in TokenSlots : CodeGrantInsert(r)
    \/ \E r \in Reqs : SessionRefresh(r)
    \/ \E r \in Reqs : RefreshCommit(r)
    \/ \E r \in TokenSlots : GuardRevoke(r)
    \/ \E r \in TokenSlots : RevokeCommit(r)
    \/ cleanup_loop_wake
    \/ run_cleanup
    \/ \E d \in {Hours(1) + Minutes(CODE_EXPIRE_MINUTES) + 1,
                 Days(REVOKED_TOKEN_GRACE_PERIOD_DAYS) + 1,
                 Days(REFRESH_TOKEN_EXPIRE_DAYS + 1) + 1} : AdvanceIdle(d)

SpecUnseen == Init /\ [][NextUnseen]_vars

\* the check of a bearer token against the table: the signature and claims
\* of the JWT, then the row with its hash and revoked false
TokenCheckAccepts(token) ==
    /\ verify_access_token(token, MCP_ENDPOINT, now) = 0
    /\ QueryActiveToken(token) # {}

\* C29: the janitor is invisible to clients.  Every row a step of a janitor
\* cycle deletes was unusable (a code past its expiry, a token row past both
\* its lifetimes, or a revoked row); the step changes the accept/reject
\* outcome of no code exchange, refresh grant or database-backed token check
\* that arrives after it; and it deletes no row that a request past its checks
\* is about to write, so the outcome of a request it interleaves with is the
\* one the request would have had without it.
C29_JanitorInvisible ==
    [][(janitor \in {"codes", "tokens", "revoked"} /\ janitor' # janitor) =>
          /\ \A c \in codes \ codes' : c.expires_at < now
          /\ \A t \in tokens \ tokens' :
                t.revoked \/ (t.expires_at < now /\ t.refresh_expires_at < now)
          /\ \A c \in codes, uri \in RedirectUris, v \in Verifiers,
                cid \in ClientIds, res \in Resources :
                (CodeGrantArrival(c.code, uri, v, cid, res).err = "")
                    <=> (CodeGrantArrival(c.code, uri, v, cid, res).err = "")'
          /\ \A rt \in HandedRefresh, cid \in ClientIds, res \in Resources :
                (RefreshArrival(rt, cid, res).err = "")
                    <=> (RefreshArrival(rt, cid, res).err = "")'
          /\ \A a \in HandedAccess : TokenCheckAccepts(a) <=> TokenCheckAccepts(a)'
          /\ \A r \in Reqs :
                /\ reqs[r].pc = "cg_mark"
                      => \A c \in codes \ codes' : c.code # reqs[r].row.code
                /\ reqs[r].pc = "rg_commit"
                      => \A t \in tokens \ tokens' :
                            t.token_hash # reqs[r].row.token_hash]_vars

(***************************************************************************)
(* Claims about a refresh racing a revocation (SpecSession).               *)
(***************************************************************************)
\* request r is a refresh answered 200 whose UPDATE matched a revoked row
RefreshedRevoked(r) ==
    /\ reqs[r].pc = "done" /\ reqs[r].kind = "refresh_grant" /\ reqs[r].status = 200
    /\ reqs[r].row.revoked

\* C30: a refresh whose row is revoked when it commits hands out no usable
\* token: the pair it returns fails the lookup of the access token by hash
\* with revoked false, fails the lookup of every later refresh grant, and a
\* later request to the protected resource carrying the access token is
\* answered 401 by the middleware.
C30_RefreshRevokeRace ==
    /\ [](\A r \in Reqs :
            RefreshedRevoked(r) =>
                /\ QueryActiveToken(reqs[r].access) = {}
                /\ \A cid \in ClientIds : QueryRefresh(reqs[r].refresh, cid) = {})
    /\ [][\A r \in Reqs, q \in Reqs :
            (RefreshedRevoked(r) /\ Free(q) /\ reqs'[q].kind = "mcp"
                                 /\ reqs'[q].token = reqs[r].access)
                => (reqs'[q].pc = "done" /\ reqs'[q].status = 401)]_vars

====
